---- MODULE Spec2Model ----
(***************************************************************************)
(* Model of the signal-processing engine (class SignalProcessor):          *)
(* performFFT, performSTFT, performHilbert, performWavelet, performWelch.  *)
(*                                                                         *)
(* Numbers.  Samples are small integers.  A complex value is a record      *)
(* [re, im] of integers.  A quotient the code computes in floating point   *)
(* is kept exact as a numerator with its denominator next to it            *)
(* (analyticSignal[i] = [re, im] / den, times[i] = num / sampleRate), and  *)
(* a square root is kept as the number under the root (envelope[i] =       *)
(* sqrt(sq) / den).  Transform lengths the model reaches are 1, 2 and 4,   *)
(* where every twiddle factor is one of 1, i, -1, -i, so the DFT sums are  *)
(* exact.                                                                  *)
(***************************************************************************)
EXTENDS Integers, Sequences, FiniteSets, TLC

(* ------------------------------ bounds --------------------------------- *)
MaxLen == 3
MaxAmp == 1
MaxRate == 2
MaxWin == 4
MaxHop == 2
MaxSeg == 4
MaxScale == 3
MaxScales == 2
MaxAutoLen == 40
MaxHandlers == 1

(* ------------------------- program constants --------------------------- *)
fftLengthUsed == 512
\* options.minFrameCount || 3, options.maxFrameCount || 20, for options that
\* set neither
minFrameCount == 3
maxFrameCount == 20

(* ------------------------------ state ---------------------------------- *)
VARIABLES
    fftLoaded,   \* typeof window.FFT !== 'undefined'
    pc,          \* "idle" before the call, "stft" / "welch" inside a loop, "done" after it
    call,        \* the arguments of the current (or last) call
    start,       \* performSTFT: loop index; performWelch: loop index i, in halves
    result,      \* performSTFT: rows pushed so far; performWelch: segments so far
    times,       \* performSTFT: time stamps pushed so far (numerators)
    ret,         \* what the last completed call returned
    ifft,        \* the routine that computed the inverse transform in the call, or "none"
    arrays,      \* the caller's signal and scales arrays, as the call has left them so far
    earlier,     \* a completed call the caller remembers: its arguments, what it
                 \* returned, and the operation called last since then
    dashboard    \* the Dashboard object, the file in the data loader, and the
                 \* elements of the page the object works on

vars == <<fftLoaded, pc, call, start, result, times, ret, ifft, arrays, earlier, dashboard>>

Null == [kind |-> "null"]
NoCall == [op |-> "none"]
NoEarlier == [call |-> NoCall, ret |-> Null, between |-> "none"]

Samples == (0 - MaxAmp)..MaxAmp
RECURSIVE SeqsUpTo(_, _)
SeqsUpTo(S, n) ==
    IF n = 0 THEN {<<>>}
    ELSE LET shorter == SeqsUpTo(S, n - 1)
         IN  shorter \cup {Append(s, x) : s \in {t \in shorter : Len(t) = n - 1}, x \in S}
Signals == SeqsUpTo(Samples, MaxLen)
\* a sample rate argument: not given (null or omitted) or a number
SampleRates == {[given |-> FALSE, hz |-> 0]} \cup {[given |-> TRUE, hz |-> r] : r \in (0 - 1)..MaxRate}
\* a signal argument: absent (null/undefined) or an array
SignalArgs == {[present |-> FALSE, data |-> <<>>]} \cup {[present |-> TRUE, data |-> s] : s \in Signals}

\* the signals given to the framing operations, whose modelled results depend
\* on the positions of the samples only: sample i has the value i
Ramp(n) == [present |-> TRUE, data |-> [i \in 1..n |-> i]]
Ramps == {Ramp(n) : n \in 0..MaxLen}
RampArgs == {[present |-> FALSE, data |-> <<>>]} \cup Ramps

Abs(x) == IF x < 0 THEN 0 - x ELSE x

(* --------------------------- FFT helpers ------------------------------- *)
RECURSIVE Pow2AtLeast(_, _)
Pow2AtLeast(p, len) == IF p >= len THEN p ELSE Pow2AtLeast(2 * p, len)
\* Math.pow(2, Math.ceil(Math.log2(len))): 0 for len = 0 (2^-Infinity)
NextPow2(len) == IF len = 0 THEN 0 ELSE Pow2AtLeast(1, len)

\* the array padded with zeros up to n entries
ZeroPad(signal, n) == [i \in 1..n |-> IF i <= Len(signal) THEN signal[i] ELSE 0]

\* cos and sin of 2*pi*k*t/n for n in {1, 2, 4}: the angle is a whole number
\* of quarter turns
QuarterTurns(k, t, n) == (k * t * (4 \div n)) % 4
CosQ(q) == <<1, 0, 0 - 1, 0>>[q + 1]
SinQ(q) == <<0, 1, 0, 0 - 1>>[q + 1]

RECURSIVE SumTo(_, _)
SumTo(f, n) == IF n = 0 THEN 0 ELSE f[n] + SumTo(f, n - 1)

\* window.FFT(n, sampleRate).forward(buffer): the DFT with kernel e^{-i 2 pi k t / n};
\* entry k+1 is bin k
FFTForward(buffer) ==
    LET n == Len(buffer)
    IN  [k1 \in 1..n |->
            [re |-> SumTo([t1 \in 1..n |-> buffer[t1] * CosQ(QuarterTurns(k1 - 1, t1 - 1, n))], n),
             im |-> SumTo([t1 \in 1..n |-> 0 - buffer[t1] * SinQ(QuarterTurns(k1 - 1, t1 - 1, n))], n)]]

\* the number of passes of "for (let i = 0; i < n / 2; i++)"
FFTBins(n) == (n + 1) \div 2

\* performFFT's early returns: no signal, no sample rate, no FFT library
FFTFails(present, len, rateGiven) ==
    \/ ~present
    \/ len = 0
    \/ ~rateGiven
    \/ ~fftLoaded

performFFT(sig, rate) ==
    IF FFTFails(sig.present, Len(sig.data), rate.given) THEN Null
    ELSE LET n == NextPow2(Len(sig.data))
             X == FFTForward(ZeroPad(sig.data, n))
             bins == FFTBins(n)
         IN  [kind |-> "fft",
              magnitude |-> [i \in 1..bins |-> [sq |-> X[i].re * X[i].re + X[i].im * X[i].im, den |-> 1]],
              phase |-> [i \in 1..bins |-> [y |-> X[i].im, x |-> X[i].re]],
              real |-> [i \in 1..bins |-> X[i].re],
              imaginary |-> [i \in 1..bins |-> X[i].im],
              fftLength |-> n,
              originalLength |-> Len(sig.data),
              frequencyBins |-> n \div 2,
              frequencyResolution |-> [num |-> rate.hz, den |-> n],
              sampleRate |-> rate.hz]

(* ------------------------- Hilbert transform -------------------------- *)
\* the inverse with the forward transform's sign of the angle
_simpleIFFT_ForwardSign(complexArray) ==
    LET n == Len(complexArray)
    IN  [t1 \in 1..n |->
            [re |-> SumTo([k1 \in 1..n |->
                        complexArray[k1].re * CosQ(QuarterTurns(k1 - 1, t1 - 1, n))
                        + complexArray[k1].im * SinQ(QuarterTurns(k1 - 1, t1 - 1, n))], n),
             im |-> SumTo([k1 \in 1..n |->
                        complexArray[k1].im * CosQ(QuarterTurns(k1 - 1, t1 - 1, n))
                        - complexArray[k1].re * SinQ(QuarterTurns(k1 - 1, t1 - 1, n))], n),
             den |-> n]]

\* DFT-based inverse: result[t] = (1/n) * sum_k complexArray[k] * e^{+i 2 pi k t / n};
\* every entry is the pair of sums over the denominator n
_simpleIFFT(complexArray) ==
    LET n == Len(complexArray)
    IN  [t1 \in 1..n |->
            [re |-> SumTo([k1 \in 1..n |->
                        complexArray[k1].re * CosQ(QuarterTurns(k1 - 1, t1 - 1, n))
                        - complexArray[k1].im * SinQ(QuarterTurns(k1 - 1, t1 - 1, n))], n),
             im |-> SumTo([k1 \in 1..n |->
                        complexArray[k1].re * SinQ(QuarterTurns(k1 - 1, t1 - 1, n))
                        + complexArray[k1].im * CosQ(QuarterTurns(k1 - 1, t1 - 1, n))], n),
             den |-> n]]

\* H(f) = 1 (DC), 2 (0 < f < Nyquist), 1 (Nyquist), 0 (above); entry k+1 is bin k
analyticSpectrum(spectrum) ==
    LET n_fft == Len(spectrum)
    IN  [k1 \in 1..n_fft |->
            IF k1 - 1 = 0 THEN spectrum[k1]
            ELSE IF 2 * (k1 - 1) < n_fft
                 THEN [re |-> spectrum[k1].re * 2, im |-> spectrum[k1].im * 2]
            ELSE IF 2 * (k1 - 1) = n_fft THEN spectrum[k1]
            ELSE [re |-> 0, im |-> 0]]

\* "envelope[i] < Math.abs(signal[i]) - 1e-6" for envelope[i] = sqrt(e.sq) / e.den.
\* Both squares are integers over den^2 <= 16 and |signal[i]| is a small integer,
\* so a shortfall is never smaller than the tolerance.
Crosses(e, x) == e.sq < (e.den * Abs(x)) * (e.den * Abs(x))

\* the envelope of an analytic signal: Math.sqrt(c[0] * c[0] + c[1] * c[1]) for
\* c = [re, im] / den, kept as the sum of squares under the root over den
hilbertEnvelope(analyticSignal) ==
    [i \in 1..Len(analyticSignal) |->
        [sq |-> analyticSignal[i].re * analyticSignal[i].re
                + analyticSignal[i].im * analyticSignal[i].im,
         den |-> analyticSignal[i].den]]

\* performHilbert after the inverse transform: cut to the signal's length, take the
\* envelope, count the samples it falls below (console only), return the record
hilbertResult(signal, analyticSignalFull) ==
    LET analyticSignal == SubSeq(analyticSignalFull, 1, Len(signal))
    IN  [kind |-> "hilbert",
         envelope |-> hilbertEnvelope(analyticSignal),
         analyticSignal |-> analyticSignal]

performHilbert(sig, rate) ==
    IF ~sig.present \/ Len(sig.data) = 0 THEN Null
    ELSE IF ~rate.given THEN Null
    ELSE LET signal == sig.data
             n == Len(signal)
             n_fft == NextPow2(n)
         IN  \* new window.FFT throws without the library; spectrum[n_fft / 2] is
             \* undefined when n_fft / 2 is no index (n_fft = 1): both are caught
             IF ~fftLoaded \/ n_fft % 2 # 0 THEN Null
             ELSE LET spectrum == FFTForward(ZeroPad(signal, n_fft))
                      analyticSignalFull == _simpleIFFT(analyticSpectrum(spectrum))
                  IN  hilbertResult(signal, analyticSignalFull)

\* the routine performHilbert hands the analytic spectrum to: this._simpleIFFT,
\* once the forward transform and the mask went through
hilbertInverse(sig, rate) ==
    IF performHilbert(sig, rate) = Null THEN "none" ELSE "_simpleIFFT"

\* the count the validation loop logs (it is not part of the returned record)
crossCount(signal, envelope) ==
    Cardinality({i \in 1..Len(signal) : Crosses(envelope[i], signal[i])})

(* -------------------------------- STFT -------------------------------- *)
\* freq[i] = i * sampleRate / fftLength for i < fftLength / 2 (numerators over fftLength)
getFrequencies(fftLength, hz) ==
    [i1 \in 1..FFTBins(fftLength) |-> [num |-> (i1 - 1) * hz, den |-> fftLength]]

\* array.slice(0, end) for end >= 0: the first entries up to end, or all of them
SliceTo(array, end) == SubSeq(array, 1, IF end < Len(array) THEN end ELSE Len(array))

\* the frame after "while (windowed.length < fftLengthUsed) windowed.push(0)"
WindowedLength(windowSize) == IF windowSize < fftLengthUsed THEN fftLengthUsed ELSE windowSize

\* one row of the spectrogram: fft.magnitude.slice(0, fft.magnitude.length / 2),
\* normalised with fftLengthUsed and converted to dB.  The row is kept by its
\* number of entries, the length of the FFT that made it and the length it was
\* normalised with.
STFTRow(windowSize) ==
    LET n == NextPow2(WindowedLength(windowSize))
    IN  [len |-> FFTBins(n) \div 2, fftLength |-> n, normLength |-> fftLengthUsed]

\* the time stamp pushed for a frame: start / sampleRate, kept as its numerator
STFTTime(frameStart) == frameStart

\* the loop condition with < for <=: the last full frame is lost
STFTLoopCond_Strict == start + call.windowSize < Len(call.signal.data)

\* the loop condition of "for (let start = 0; start + windowSize <= signal.length; ...)"
STFTLoopCond == start + call.windowSize <= Len(call.signal.data)

\* the loop's increment "start += hopSize"
STFTAdvance(s, hopSize) == s + hopSize

\* the record returned after the loop
STFTResult ==
    [kind |-> "stft",
     spectrogram |-> result,
     times |-> times,
     windowSize |-> call.windowSize,
     hopSize |-> call.hopSize,
     frequencies |-> SliceTo(getFrequencies(fftLengthUsed, call.sampleRate.hz), fftLengthUsed \div 2),
     fftLength |-> fftLengthUsed,
     sampleRate |-> call.sampleRate.hz,
     signalLength |-> Len(call.signal.data),
     frameCount |-> Len(result)]

\* the guards without the test of the sample rate
STFTRejects_NoRateTest(sig, windowSize, hopSize, rate) ==
    \/ ~sig.present
    \/ Len(sig.data) = 0

\* the guards at the top of performSTFT
STFTRejects(sig, windowSize, hopSize, rate) ==
    \/ ~sig.present
    \/ Len(sig.data) = 0
    \/ ~rate.given

\* the factor bin i (from 0) of a row was multiplied with before the dB
\* conversion: "if (i === 0 || i === fftLengthUsed / 2) return m / fftLengthUsed;
\* return 2 * m / fftLengthUsed"
STFTBinFactor(row, i) ==
    IF i = 0 \/ i = fftLengthUsed \div 2
    THEN [num |-> 1, den |-> row.normLength]
    ELSE [num |-> 2, den |-> row.normLength]

(* -------------------------------- Welch ------------------------------- *)
\* the guards at the top of performWelch
WelchRejects(sig, nperseg, rate) ==
    \/ ~sig.present
    \/ Len(sig.data) < nperseg
    \/ ~rate.given

\* the loop index i is a multiple of step = nperseg / 2: start holds 2 * i
WelchLoopCond == start + 2 * call.nperseg <= 2 * Len(call.signal.data)

\* "i += step" with step = nperseg / 2, in halves
WelchAdvance(i2, nperseg) == i2 + nperseg

\* signal.slice(i, i + nperseg).length: slice truncates both ends
WelchSegmentLength(i2, nperseg) == ((i2 + 2 * nperseg) \div 2) - (i2 \div 2)

\* the length of the psd of the first segment whose FFT succeeds, 0 entries
\* standing for psd: null when no FFT succeeds
WelchPsdLength(segments) ==
    LET ok == {j \in 1..Len(segments) : ~FFTFails(TRUE, segments[j], TRUE)}
    IN  IF ok = {} THEN [isNull |-> TRUE, len |-> 0]
        ELSE LET first == CHOOSE j \in ok : \A k \in ok : j <= k
             IN  [isNull |-> FALSE, len |-> FFTBins(NextPow2(segments[first])) \div 2]

WelchResult ==
    [kind |-> "welch",
     psd |-> WelchPsdLength(result),
     frequency |-> getFrequencies(call.nperseg, call.sampleRate.hz),
     segments |-> Len(result)]

(* ------------------------------- wavelet ------------------------------ *)
Min(a, b) == IF a < b THEN a ELSE b
Max(a, b) == IF a > b THEN a ELSE b
SeqMax(seq) == CHOOSE m \in {seq[i] : i \in 1..Len(seq)} : \A i \in 1..Len(seq) : seq[i] <= m
Reverse(seq) == [i \in 1..Len(seq) |-> seq[Len(seq) + 1 - i]]

\* the elements of a finite set of integers in ascending order
RECURSIVE SortAsc(_)
SortAsc(S) ==
    IF S = {} THEN <<>>
    ELSE LET m == CHOOSE x \in S : \A y \in S : x <= y
         IN  <<m>> \o SortAsc(S \ {m})

\* "for (let s = 1; s <= 64; s *= 1.2) scales.push(Math.floor(s))": s is kept in
\* millionths, which decides every floor the loop takes
RECURSIVE ScaleSteps(_)
ScaleSteps(micro) ==
    IF micro <= 64 * 1000000
    THEN <<micro \div 1000000>> \o ScaleSteps((micro * 12) \div 10)
    ELSE <<>>

\* the list without "new Set": the loop's pushes, duplicates included
defaultScales_NoSet == ScaleSteps(1000000)

\* [...new Set(scales)].sort((a, b) => a - b)
defaultScales ==
    LET raw == ScaleSteps(1000000)
    IN  SortAsc({raw[i] : i \in 1..Len(raw)})

\* the filter's test turned round: the scales above the Nyquist frequency are kept
KeepScale_Reversed(scale, hz, omega0) == hz * (355 * scale - 113 * omega0) <= 0

\* the filter's test "centerFrequency * sampleRate / scale <= sampleRate / 2" with
\* centerFrequency = omega0 / (2 pi), for a scale > 0: multiplied out it reads
\* sampleRate * (pi * scale - omega0) >= 0, and 355/113 decides the sign of
\* pi * scale - omega0 for the integers of the model
KeepScale(scale, hz, omega0) == hz * (355 * scale - 113 * omega0) >= 0

nyquistFilter(scales, hz, omega0) ==
    LET Keep(scale) == KeepScale(scale, hz, omega0)
    IN  SelectSeq(scales, Keep)

\* Math.floor(maxScale * 5)
padSize(scales) == SeqMax(scales) * 5

\* the signal with its two pads, per edgeMode
paddedSignal(signal, scales, edgeMode) ==
    LET len == Len(signal)
        pad == padSize(scales)
    IN  IF edgeMode = "zero"
        THEN [i \in 1..pad |-> 0] \o signal \o [i \in 1..pad |-> 0]
        ELSE IF edgeMode = "symmetric"
        THEN \* signal.slice(0, padSize).reverse(), signal.slice(-padSize).reverse()
             Reverse(SubSeq(signal, 1, Min(pad, len))) \o signal
                \o Reverse(SubSeq(signal, Max(len - pad, 0) + 1, len))
        ELSE IF edgeMode = "reflect"
        THEN \* signal.slice(1, padSize + 1).reverse(), signal.slice(-padSize - 1, -1).reverse()
             Reverse(SubSeq(signal, 2, Min(pad + 1, len))) \o signal
                \o Reverse(SubSeq(signal, Max(len - pad - 1, 0) + 1, len - 1))
        ELSE signal

padLeft(scales, edgeMode) == IF edgeMode = "none" THEN 0 ELSE padSize(scales)

\* the taps summed for one coefficient:
\* for (n = Math.max(0, tPadded - window); n < Math.min(paddedSignal.length, tPadded + window); n++)
\* with window = Math.floor(scale * 5 * sigma); t and the taps are 0-based
waveletTaps(t, scale, sigma, left, paddedLength) ==
    LET window == scale * 5 * sigma
        tPadded == t + left
    IN  [from |-> Max(0, tPadded - window), to |-> Min(paddedLength, tPadded + window) - 1]

\* the row loop run over the padded signal: one coefficient per padded sample
waveletRow_OverPadded(signal, padded, scale, sigma, left) ==
    [t1 \in 1..Len(padded) |-> waveletTaps(t1 - 1, scale, sigma, left, Len(padded))]

\* the row of one scale: "for (let t = 0; t < signal.length; t++)" pushes one
\* coefficient per sample, kept as the taps it sums
waveletRow(signal, padded, scale, sigma, left) ==
    [t1 \in 1..Len(signal) |-> waveletTaps(t1 - 1, scale, sigma, left, Len(padded))]

\* options.omega0 || 5, options.sigma || 1, options.edgeMode || 'none'
OptOmega0(options) == IF options.omega0 = 0 THEN 5 ELSE options.omega0
OptSigma(options) == IF options.sigma = 0 THEN 1 ELSE options.sigma
OptEdgeMode(options) == IF options.edgeMode = "" THEN "none" ELSE options.edgeMode

performWavelet(sig, scalesArg, rate, options) ==
    IF ~sig.present \/ Len(sig.data) = 0 THEN Null
    ELSE IF ~rate.given THEN Null
    ELSE LET signal == sig.data
             omega0 == OptOmega0(options)
             sigma == OptSigma(options)
             edgeMode == OptEdgeMode(options)
             scales0 == IF scalesArg.given THEN scalesArg.list ELSE defaultScales
             scales == IF options.filterNyquist
                       THEN nyquistFilter(scales0, rate.hz, omega0)
                       ELSE scales0
         IN  IF options.filterNyquist /\ Len(scales) = 0 THEN Null
             \* Math.max() of no scale is -Infinity: new Array(-Infinity) throws
             \* in 'zero' mode; the other modes slice nothing and go on
             ELSE IF Len(scales) = 0
             THEN IF edgeMode = "zero" THEN Null
                  ELSE [kind |-> "wavelet", coefficients |-> <<>>, scales |-> scales,
                        frequencies |-> <<>>, omega0 |-> omega0, sampleRate |-> rate.hz,
                        time |-> [i \in 1..Len(signal) |-> i - 1], edgeMode |-> edgeMode]
             ELSE LET padded == paddedSignal(signal, scales, edgeMode)
                      left == padLeft(scales, edgeMode)
                  IN  [kind |-> "wavelet",
                       coefficients |-> [j \in 1..Len(scales) |->
                            waveletRow(signal, padded, scales[j], sigma, left)],
                       scales |-> scales,
                       \* (omega0 / 2 pi) * sampleRate / scale, kept as its three parts
                       frequencies |-> [j \in 1..Len(scales) |->
                            [omega0 |-> omega0, hz |-> rate.hz, scale |-> scales[j]]],
                       omega0 |-> omega0,
                       sampleRate |-> rate.hz,
                       time |-> [i \in 1..Len(signal) |-> i - 1],
                       edgeMode |-> edgeMode]

\* the scales argument: null (the default set is generated) or a caller's list
ScaleArgs == {[given |-> FALSE, list |-> <<>>]}
             \cup {[given |-> TRUE, list |-> l] : l \in SeqsUpTo(1..MaxScale, MaxScales)}
\* the options object; 0 and "" stand for a key that is not set
WaveletOptions ==
    [omega0 : {0, 7}, sigma : {0, 2}, edgeMode : {"", "zero", "symmetric", "reflect"},
     filterNyquist : BOOLEAN]

\* the arguments performWavelet is called with: every small combination, and the
\* default scales at 100 Hz with the default options
WaveletArgs ==
    [signal : RampArgs, scales : ScaleArgs, sampleRate : SampleRates, options : WaveletOptions]
    \cup {[signal |-> Ramp(MaxLen), scales |-> [given |-> FALSE, list |-> <<>>],
           sampleRate |-> [given |-> TRUE, hz |-> 100],
           options |-> [omega0 |-> 0, sigma |-> 0, edgeMode |-> "", filterNyquist |-> TRUE]]}

(* ------------------------- automatic window size ----------------------- *)
RECURSIVE Pow2(_)
Pow2(e) == IF e = 0 THEN 1 ELSE 2 * Pow2(e - 1)

\* Math.ceil(Math.log2(a / b)) for a, b > 0: the least e with 2^e >= a / b
RECURSIVE CeilLog2(_, _)
CeilLog2(a, b) ==
    IF a > b THEN 1 + CeilLog2(a, 2 * b)
    ELSE IF 2 * a <= b THEN CeilLog2(2 * a, b) - 1
    ELSE 0

\* Math.floor(Math.log2(a / b)) for a, b > 0: the greatest e with 2^e <= a / b
RECURSIVE FloorLog2(_, _)
FloorLog2(a, b) ==
    IF a >= 2 * b THEN 1 + FloorLog2(a, 2 * b)
    ELSE IF a < b THEN FloorLog2(2 * a, b) - 1
    ELSE 0

\* 2^e > x / d and 2^e < x for integers x >= 1, d in {1, 2}, and any integer e
Pow2Above(e, x, d) == IF e >= 0 THEN d * Pow2(e) > x ELSE d = 2 /\ e = 0 - 1 /\ 1 > x
Pow2Below(e, x) == e < 0 \/ Pow2(e) < x

\* options.cyclesPerWindow || 5, options.minWindowSize || 32 (0 stands for a key
\* that is not set)
OptCycles(options) == IF options.cyclesPerWindow = 0 THEN 5 ELSE options.cyclesPerWindow
OptMinWindow(options) == IF options.minWindowSize = 0 THEN 32 ELSE options.minWindowSize

\* Every value windowSize takes before the minimum is applied is a power of two,
\* 2^e with e possibly negative; it is kept as e.
_autoCalculateWindowSize(signalLength, hz, options) ==
    LET method == IF options.expectedFrequency > 0 THEN "frequency-based"
                  ELSE IF options.frequencyResolution > 0 THEN "resolution-based"
                  ELSE "adaptive"
        \* Step 1
        e1 == IF method = "frequency-based"
              THEN CeilLog2(hz * OptCycles(options), options.expectedFrequency)
              ELSE IF method = "resolution-based"
              THEN CeilLog2(hz, options.frequencyResolution)
              ELSE FloorLog2(signalLength, 15)
        \* Step 2
        short == Pow2Above(e1, signalLength, 1)
        e2 == IF short THEN FloorLog2(signalLength, 1) ELSE e1
        few == Pow2Above(e2, signalLength, 2)
        e3 == IF few THEN CeilLog2(signalLength, 1) - 2 ELSE e2
        small == Pow2Below(e3, OptMinWindow(options))
        windowSize == IF small THEN OptMinWindow(options) ELSE Pow2(e3)
        \* Step 3
        hopSize == windowSize \div 2
        frameCount == ((signalLength - windowSize) \div hopSize) + 1
    IN  [kind |-> "window",
         windowSize |-> windowSize,
         hopSize |-> hopSize,
         \* Math.floor((signalLength - windowSize) / hopSize) + 1; a hopSize of 0
         \* makes it Infinity or NaN, kept as 0 over 0
         frameCount |-> IF hopSize = 0 THEN [num |-> 0, den |-> 0]
                        ELSE [num |-> frameCount, den |-> 1],
         method |-> method,
         \* the two frame-count tests push a warning and change nothing
         warnings |-> [short |-> short, few |-> few, small |-> small,
                       tooFew |-> hopSize # 0 /\ frameCount < minFrameCount,
                       tooMany |-> hopSize # 0 /\ frameCount > maxFrameCount]]

\* the arguments of _autoCalculateWindowSize: short and long signals, slow and
\* fast sample rates, and the options that pick the method and the minimum
AutoLengths == (1..MaxAutoLen) \cup {256, 480, 1000}
AutoRates == {1, MaxRate, 100}
AutoOptions ==
    [expectedFrequency : {0, 1, 5}, frequencyResolution : {0, 1},
     cyclesPerWindow : {0, 3}, minWindowSize : {0, 48, 64}]

(* ---------------------------- preprocessing ---------------------------- *)
\* an array a call returns
Array(data) == [kind |-> "array", data |-> data]

\* signal.map(x => x - mean) with mean = sum / length: entry i is
\* (length * signal[i] - sum) / length
removeDC(sig) ==
    IF ~sig.present \/ Len(sig.data) = 0 THEN Null
    ELSE LET signal == sig.data
             n == Len(signal)
             sum == SumTo(signal, n)
         IN  Array([i1 \in 1..n |-> [num |-> n * signal[i1] - sum, den |-> n]])

\* the least-squares line through (i, signal[i]), i = 0..n-1, subtracted.  With
\* Sx and Sy the sums of the i and of the samples, the code's numerator and
\* denominator are N2 / n^2 and D2 / n^2, slope = N2 / D2,
\* intercept = (Sy * D2 - N2 * Sx) / (n * D2), and entry i of the result is
\* (signal[i] * n * D2 - N2 * i * n - Sy * D2 + N2 * Sx) / (n * D2).
\* A denominator 0 is the code's 0 / 0: the entry is NaN.
detrend(sig) ==
    IF ~sig.present \/ Len(sig.data) = 0 THEN Null
    ELSE LET signal == sig.data
             n == Len(signal)
             Sx == SumTo([i1 \in 1..n |-> i1 - 1], n)
             Sy == SumTo(signal, n)
             N2 == SumTo([i1 \in 1..n |-> (n * (i1 - 1) - Sx) * (n * signal[i1] - Sy)], n)
             D2 == SumTo([i1 \in 1..n |-> (n * (i1 - 1) - Sx) * (n * (i1 - 1) - Sx)], n)
         IN  Array([i1 \in 1..n |->
                 [num |-> signal[i1] * n * D2 - N2 * (i1 - 1) * n - Sy * D2 + N2 * Sx,
                  den |-> n * D2]])

(* ------------------------------- arrays -------------------------------- *)
\* The arrays a call works on.  env gives, for each array-valued name of the
\* running function, the array object it refers to, and obj gives the elements
\* of each object.  The parameters signal and scales start out referring to the
\* caller's arrays; an object made at the statement that binds a name carries
\* that name.
Locals == {"signal", "scales", "paddedSignal", "segment", "windowed", "zeros",
           "leftPad", "rightPad", "x", "mapped"}
Objects == Locals \cup {"callerSignal", "callerScales"}
NoArrays == [signal |-> <<>>, scales |-> <<>>]

Store0(caller) ==
    [env |-> [nm \in Locals |-> IF nm = "signal" THEN "callerSignal"
                                ELSE IF nm = "scales" THEN "callerScales" ELSE nm],
     obj |-> [o \in Objects |-> IF o = "callerSignal" THEN caller.signal
                                ELSE IF o = "callerScales" THEN caller.scales ELSE <<>>]]

\* the caller's arrays as the statements run so far have left them
CallerArrays(st) == [signal |-> st.obj["callerSignal"], scales |-> st.obj["callerScales"]]

Elements(st, name) == st.obj[st.env[name]]

\* name = <a new array holding elems>: [], new Array(n), Array.from(...)
NewArray(st, name, elems) ==
    [env |-> [st.env EXCEPT ![name] = name], obj |-> [st.obj EXCEPT ![name] = elems]]

\* the elements of the array that name refers to are overwritten in place
WriteArray(st, name, elems) == [st EXCEPT !.obj[st.env[name]] = elems]

\* name = src: the name refers to the array of src, no copy is made
Spread_Alias(st, name, src) == [st EXCEPT !.env[name] = st.env[src]]

\* name = [...src]
Spread(st, name, src) == NewArray(st, name, Elements(st, src))

\* a relative index of slice: negative counts from the end, both ends clamp
SliceIndex(k, len) == IF k < 0 THEN Max(len + k, 0) ELSE Min(k, len)
SliceSeq(array, from, to) ==
    LET a == SliceIndex(from, Len(array))
        b == SliceIndex(to, Len(array))
    IN  IF a >= b THEN <<>> ELSE SubSeq(array, a + 1, b)

\* name = src.slice(from, to)
Slice(st, name, src, from, to) == NewArray(st, name, SliceSeq(Elements(st, src), from, to))

\* while (name.length < n) name.push(v)
PushUntil(st, name, n, v) ==
    WriteArray(st, name,
        [i \in 1..Max(n, Len(Elements(st, name))) |->
            IF i <= Len(Elements(st, name)) THEN Elements(st, name)[i] ELSE v])

\* name.reverse(), name.fill(v)
ReverseInPlace(st, name) == WriteArray(st, name, Reverse(Elements(st, name)))
Fill(st, name, v) == WriteArray(st, name, [i \in 1..Len(Elements(st, name)) |-> v])

\* performFFT called with the array of arg: paddedSignal = new Array(n).fill(0),
\* then paddedSignal[i] = signal[i]
FFTArrays(st, arg, rateGiven) ==
    LET signal == Elements(st, arg)
        n == NextPow2(Len(signal))
    IN  IF FFTFails(TRUE, Len(signal), rateGiven) THEN st
        ELSE WriteArray(Fill(NewArray(st, "paddedSignal", [i \in 1..n |-> 0]), "paddedSignal", 0),
                        "paddedSignal", ZeroPad(signal, n))

\* performHilbert: paddedSignal = [...signal], padded by push; the statements
\* come before new window.FFT, so they run without the library too
HilbertArrays(st, present, rateGiven) ==
    IF ~present \/ Len(Elements(st, "signal")) = 0 \/ ~rateGiven THEN st
    ELSE PushUntil(Spread(st, "paddedSignal", "signal"), "paddedSignal",
                   NextPow2(Len(Elements(st, "signal"))), 0)

\* one frame of performSTFT: segment = signal.slice(start, start + windowSize),
\* windowed = segment.map((x, i) => x * window[i]) (an entry is kept as its
\* sample and the index of its weight), padded by push, then performFFT(windowed)
STFTFrameArrays(st, frameStart, windowSize, rateGiven) ==
    LET s1 == Slice(st, "segment", "signal", frameStart, frameStart + windowSize)
        s2 == NewArray(s1, "windowed",
                  [i \in 1..Len(Elements(s1, "segment")) |->
                      [sample |-> Elements(s1, "segment")[i], weight |-> i - 1]])
        s3 == PushUntil(s2, "windowed", fftLengthUsed, 0)
    IN  FFTArrays(s3, "windowed", rateGiven)

\* one pass of performWelch's first loop: segment = signal.slice(i, i + nperseg)
WelchSegmentArrays(st, i2, nperseg) ==
    Slice(st, "segment", "signal", i2 \div 2, (i2 + 2 * nperseg) \div 2)

\* performWelch's second loop: performFFT(segment) for the first k segments
RECURSIVE WelchFFTArrays(_, _, _, _)
WelchFFTArrays(st, k, nperseg, rateGiven) ==
    IF k = 0 THEN st
    ELSE FFTArrays(WelchSegmentArrays(WelchFFTArrays(st, k - 1, nperseg, rateGiven),
                                      (k - 1) * nperseg, nperseg),
                   "segment", rateGiven)

\* performWavelet: the default scales are built in a new array, the filter
\* makes a new array, and the pads are reversed slices
WaveletArrays(st, present, scalesGiven, rate, options) ==
    IF ~present \/ Len(Elements(st, "signal")) = 0 \/ ~rate.given THEN st
    ELSE LET s1 == IF scalesGiven THEN st
                   ELSE WriteArray(NewArray(NewArray(st, "scales", ScaleSteps(1000000)),
                                            "scales", defaultScales),
                                   "scales", defaultScales)
             s2 == IF options.filterNyquist
                   THEN NewArray(s1, "scales",
                            nyquistFilter(Elements(s1, "scales"), rate.hz, OptOmega0(options)))
                   ELSE s1
             scales == Elements(s2, "scales")
             s3 == Spread(s2, "paddedSignal", "signal")
             edgeMode == OptEdgeMode(options)
         IN  IF Len(scales) = 0 THEN s3
             ELSE LET pad == padSize(scales)
                      Joined(s, l, r) ==
                          NewArray(s, "paddedSignal",
                              Elements(s, l) \o Elements(s, "signal") \o Elements(s, r))
                  IN  IF edgeMode = "zero"
                      THEN Joined(Fill(NewArray(s3, "zeros", [i \in 1..pad |-> 0]), "zeros", 0),
                                  "zeros", "zeros")
                      ELSE IF edgeMode = "symmetric"
                      THEN Joined(ReverseInPlace(Slice(
                                      ReverseInPlace(Slice(s3, "leftPad", "signal", 0, pad), "leftPad"),
                                      "rightPad", "signal", 0 - pad, Len(Elements(s3, "signal"))),
                                      "rightPad"),
                                  "leftPad", "rightPad")
                      ELSE IF edgeMode = "reflect"
                      THEN Joined(ReverseInPlace(Slice(
                                      ReverseInPlace(Slice(s3, "leftPad", "signal", 1, pad + 1), "leftPad"),
                                      "rightPad", "signal", 0 - pad - 1, 0 - 1),
                                      "rightPad"),
                                  "leftPad", "rightPad")
                      ELSE s3

\* removeDC: return signal.map(x => x - mean)
RemoveDCArrays(st, sig) ==
    IF removeDC(sig) = Null THEN st ELSE NewArray(st, "mapped", removeDC(sig).data)

\* detrend: x = Array.from({length: n}, (_, i) => i), return signal.map(...)
DetrendArrays(st, sig) ==
    IF detrend(sig) = Null THEN st
    ELSE NewArray(NewArray(st, "x", [i \in 1..Len(sig.data) |-> i - 1]),
                  "mapped", detrend(sig).data)

(* ------------------------------ dashboard ------------------------------ *)
\* The sensors of the loaded files.  dataLoader.data is null (0) until a file is
\* loaded; a load replaces it.  A sensor of a file is listed or not, its records
\* carry a type, and a listed sensor may have no record.  The two files differ
\* in the values of every sensor, pwm has another type in the second, and cpuTemp
\* has no record there.
SensorNames == {"cpuFan", "cpuTemp", "pwm"}
NoSensor == [listed |-> FALSE, type |-> "Unknown", records |-> FALSE]
Sensor(type) == [listed |-> TRUE, type |-> type, records |-> TRUE]
DataFiles == {1, 2}
SensorTable(file) ==
    IF file = 1
    THEN [nm \in SensorNames |->
            IF nm = "cpuFan" THEN Sensor("Fan")
            ELSE IF nm = "pwm" THEN Sensor("Fan")
            ELSE Sensor("Temperature")]
    ELSE IF file = 2
    THEN [nm \in SensorNames |->
            IF nm = "cpuFan" THEN Sensor("Fan")
            ELSE IF nm = "pwm" THEN Sensor("Control")
            ELSE [listed |-> TRUE, type |-> "Unknown", records |-> FALSE]]
    ELSE [nm \in SensorNames |-> NoSensor]

\* dataLoader.getSensorList()
getSensorList(file) == {nm \in SensorNames : SensorTable(file)[nm].listed}

\* "sensorData && sensorData.length > 0 ? sensorData[0].type : 'Unknown'"
SensorTypeOf(file, nm) ==
    IF SensorTable(file)[nm].listed /\ SensorTable(file)[nm].records
    THEN SensorTable(file)[nm].type
    ELSE "Unknown"

\* the values of a sensor as a render or a handler holds them: which file they
\* came from and which sensor
Values(file, nm) == [file |-> file, sensor |-> nm]
NoValues == [file |-> 0, sensor |-> ""]

\* "!sensorData || sensorData.length === 0" is false
HasRecords(file, nm) == SensorTable(file)[nm].listed /\ SensorTable(file)[nm].records

\* this.selectedSensorsByType is an object: its keys in insertion order, each
\* with its array of sensor names.  ObjectKeys, HasOwnProperty, Get, Put, Delete
\* are the object's operations.
ObjectKeys(obj) == [i \in 1..Len(obj) |-> obj[i].type]
HasOwnProperty(obj, key) == \E i \in 1..Len(obj) : obj[i].type = key
Get(obj, key) == obj[CHOOSE i \in 1..Len(obj) : obj[i].type = key].sensors
Put(obj, key, sensors) ==
    IF HasOwnProperty(obj, key)
    THEN [i \in 1..Len(obj) |-> IF obj[i].type = key
                                THEN [type |-> key, sensors |-> sensors]
                                ELSE obj[i]]
    ELSE Append(obj, [type |-> key, sensors |-> sensors])
Delete(obj, key) == LET Keep(e) == e.type # key IN SelectSeq(obj, Keep)

\* Object.keys(this.selectedSensorsByType).length
TypeCount(d) == Len(d.selectedSensorsByType)

\* array.includes(x), array.filter(s => s !== x)
Includes(array, x) == \E i \in 1..Len(array) : array[i] = x
Without(array, x) == LET Keep(s) == s # x IN SelectSeq(array, Keep)

\* _getCurrentSensorType: the type of the records of the first sensor of the
\* single selected type
_getCurrentSensorType(d) ==
    IF TypeCount(d) # 1 THEN "Unknown"
    ELSE LET sensors == d.selectedSensorsByType[1].sensors
         IN  IF Len(sensors) = 0 THEN "Unknown"
             ELSE SensorTypeOf(d.data, sensors[1])

\* _getAllowedGraphTypes: the values, first one first
_getAllowedGraphTypes(d) ==
    IF TypeCount(d) > 1 THEN <<"timeseries">>
    ELSE IF TypeCount(d) = 0 THEN <<"timeseries">>
    ELSE LET sensorType == _getCurrentSensorType(d)
         IN  IF sensorType = "Fan"
             THEN <<"timeseries", "fft", "stft", "wavelet", "hilbert">>
             ELSE IF sensorType = "Control" THEN <<"timeseries", "fft">>
             ELSE <<"timeseries">>

\* _updateGraphTypeOptions: the select is refilled; its value is kept when it
\* is still offered, else the first option is taken over
_updateGraphTypeOptions(d) ==
    LET allowedTypes == _getAllowedGraphTypes(d)
        currentValue == d.graphTypeSelect.value
    IN  IF ~Includes(allowedTypes, currentValue)
        THEN [d EXCEPT !.currentGraphType = allowedTypes[1],
                       !.graphTypeSelect = [options |-> allowedTypes, value |-> allowedTypes[1]]]
        ELSE [d EXCEPT !.graphTypeSelect = [options |-> allowedTypes, value |-> currentValue]]

\* what #mainGraph shows: nothing, one sensor's time series, several sensors'
\* time series, or a transform of a signal (of the full signal or of a region)
Transforms == {"fft", "stft", "wavelet", "hilbert"}
NoGraph == [kind |-> "none", values |-> NoValues, region |-> FALSE]
Plot(kind, values, region) == [kind |-> kind, values |-> values, region |-> region]
NoResult == Plot("null", NoValues, FALSE)

\* Plotly.newPlot and Plotly.purge belong to the plotting library, which is not
\* part of the sources: a build of it either keeps the listeners of the graph
\* element over both or removes them in both (plotlyKeepsListeners).
newPlot(d, plot) ==
    [d EXCEPT !.graph = plot,
              !.handlers = IF d.plotlyKeepsListeners THEN @ ELSE <<>>]
purge(d) ==
    [d EXCEPT !.graph = NoGraph,
              !.handlers = IF d.plotlyKeepsListeners THEN @ ELSE <<>>]

\* _showMessage(message, 'warning')
_showWarning(d, message) == [d EXCEPT !.warning = message]

\* _showLoading(show)
_showLoading(d, show) == [d EXCEPT !.loading = show]

\* _createFFTPlot, _createSTFTPlot, _createHilbertPlot throw when the engine
\* returns null, which it does without the FFT library
TransformFails(type) == type \in {"fft", "stft", "hilbert"} /\ ~fftLoaded

\* _createFFTPlot .. _createHilbertPlot, the part that stays in the object
_createPlot(d, type, values) ==
    [d EXCEPT !.lastSignalProcessingResult = Plot(type, values, FALSE),
              !.lastProcessingType = type,
              !.lastProcessingSensor = d.currentSensor]

\* _bindSelectionEvent(fullSignal): a handler that holds fullSignal is added
\* unless the flag says one is bound
_bindSelectionEvent(d, fullSignal) ==
    IF d.selectionEventBound THEN d
    ELSE [d EXCEPT !.handlers = Append(@, fullSignal),
                   !.selectionEventBound = TRUE]

\* all selected sensors, type by type in key order
RECURSIVE AllSensors(_)
AllSensors(obj) ==
    IF Len(obj) = 0 THEN <<>> ELSE Head(obj).sensors \o AllSensors(Tail(obj))

\* _renderMultiSensorTimeseries: both early returns and the finally hide the
\* overlay
_renderMultiSensorTimeseries(d) ==
    LET allSensors == AllSensors(d.selectedSensorsByType)
    IN  IF Len(allSensors) = 0 THEN _showLoading(d, FALSE)
        ELSE IF ~HasRecords(d.data, allSensors[1]) THEN _showLoading(d, FALSE)
        ELSE _showLoading([newPlot(d, Plot("multi", NoValues, FALSE))
                              EXCEPT !.lastRender.plotted = "multi"], FALSE)

\* renderGraph returns: the path it took and the overlay as it leaves it
Returned(d, path) ==
    [d EXCEPT !.lastRender.path = path, !.lastRender.overlay = d.loading]

\* renderGraph
renderGraph(d0) ==
    LET d == [d0 EXCEPT !.lastRender = [path |-> "", plotted |-> "none", overlay |-> d0.loading]]
    IN
    IF TypeCount(d) = 0
    THEN Returned(_showWarning([purge(d) EXCEPT !.selectionEventBound = FALSE],
                               "select a sensor"), "no selection")
    ELSE
    LET shown == _showLoading(d, TRUE)
    IN
    IF TypeCount(shown) > 1
    THEN Returned(_renderMultiSensorTimeseries(
                     [shown EXCEPT !.selectionEventBound = FALSE,
                                   !.currentGraphType = "timeseries"]), "multi")
    ELSE
    LET sensors == shown.selectedSensorsByType[1].sensors
    IN
    IF Len(sensors) = 0 THEN Returned(shown, "no sensors")
    ELSE IF Len(sensors) > 1 /\ shown.currentGraphType = "timeseries"
    THEN Returned(_renderMultiSensorTimeseries(
                     [shown EXCEPT !.selectionEventBound = FALSE]), "multi")
    ELSE
    LET firstSensor == sensors[1]
        current == [shown EXCEPT !.currentSensor = firstSensor]
        values == Values(shown.data, firstSensor)
        type == shown.currentGraphType
    IN
    IF ~HasRecords(shown.data, firstSensor) THEN Returned(current, "no data")
    ELSE IF type = "timeseries"
    THEN Returned(_showLoading(
                     _bindSelectionEvent(
                        [newPlot(current, Plot("timeseries", values, FALSE))
                            EXCEPT !.lastRender.plotted = "timeseries"],
                        values), FALSE), "plotted")
    ELSE IF type \in Transforms
    THEN IF TransformFails(type)
         THEN Returned(_showLoading(current, FALSE), "threw")
         ELSE Returned(_showLoading(
                          [newPlot(_createPlot(current, type, values),
                                   Plot(type, values, FALSE))
                              EXCEPT !.lastRender.plotted = type], FALSE), "plotted")
    ELSE Returned(current, "unknown type")

\* the change handler of a sensor checkbox rejects a check that would add a
\* third type
CheckboxRejected_Never(d, sensorType) == FALSE
CheckboxRejected(d, sensorType) ==
    TypeCount(d) >= 2 /\ ~HasOwnProperty(d.selectedSensorsByType, sensorType)

\* ... the selection after an accepted change of the box of sensorName
Changed(obj, sensorType, sensorName, checked) ==
    IF checked
    THEN LET array == IF HasOwnProperty(obj, sensorType) THEN Get(obj, sensorType) ELSE <<>>
         IN  Put(obj, sensorType,
                 IF Includes(array, sensorName) THEN array ELSE Append(array, sensorName))
    ELSE IF HasOwnProperty(obj, sensorType)
         THEN IF Len(Without(Get(obj, sensorType), sensorName)) = 0
              THEN Delete(obj, sensorType)
              ELSE Put(obj, sensorType, Without(Get(obj, sensorType), sensorName))
         ELSE obj

\* ... the boxes of other types are disabled once two types are selected
Disabling(d) ==
    [d EXCEPT !.boxes = [nm \in SensorNames |->
        [d.boxes[nm] EXCEPT !.disabled =
            /\ d.boxes[nm].present
            /\ TypeCount(d) >= 2
            /\ ~d.boxes[nm].checked
            /\ ~HasOwnProperty(d.selectedSensorsByType, SensorTypeOf(d.data, nm))]]]

\* ... the whole handler, for the box of sensorName
CheckboxChanged(d, sensorName) ==
    LET sensorType == SensorTypeOf(d.data, sensorName)
        checked == ~d.boxes[sensorName].checked
    IN  IF checked /\ CheckboxRejected(d, sensorType)
        THEN _showWarning(d, "max two types")
        ELSE renderGraph(_updateGraphTypeOptions(Disabling(
                [d EXCEPT !.boxes[sensorName].checked = checked,
                          !.selectedSensorsByType =
                              Changed(@, sensorType, sensorName, checked)])))

\* _updateUI: the checkbox list is rebuilt from the sensor list, every box
\* unchecked and enabled, and the graph is rendered; without sensors the list
\* is replaced by a text
_updateUI(d) ==
    IF getSensorList(d.data) = {}
    THEN [d EXCEPT !.boxes = [nm \in SensorNames |->
            [present |-> FALSE, checked |-> FALSE, disabled |-> FALSE]]]
    ELSE renderGraph(
            [d EXCEPT !.boxes = [nm \in SensorNames |->
                [present |-> nm \in getSensorList(d.data),
                 checked |-> FALSE, disabled |-> FALSE]]])

\* the plotly_selected handlers run in the order they were added; each stores
\* the region of the signal it holds
Selected(d) ==
    [d EXCEPT !.selectedRangeData = d.handlers[Len(d.handlers)]]

\* _applySignalProcessing with processingType chosen in the panel
ProcessingTypes == {"", "fft", "stft", "wavelet", "hilbert"}
_applySignalProcessing(d, processingType) ==
    IF d.selectedRangeData = NoValues THEN d
    ELSE IF processingType = "" THEN d
    ELSE LET shown == IF TransformFails(processingType) THEN d
                      ELSE newPlot(d, Plot(processingType, d.selectedRangeData, TRUE))
         IN  [shown EXCEPT !.selectedRangeData = NoValues]

\* exportSignalProcessingJSON / exportSignalProcessingCSV
NoExport == [emitted |-> FALSE, sensor |-> "", processingType |-> "null", result |-> NoResult]
Exported(d) ==
    IF d.lastSignalProcessingResult = NoResult \/ d.lastProcessingType = "null"
    THEN [emitted |-> FALSE, sensor |-> "", processingType |-> "no result", result |-> NoResult]
    ELSE [emitted |-> TRUE, sensor |-> d.lastProcessingSensor,
          processingType |-> d.lastProcessingType,
          result |-> d.lastSignalProcessingResult]

\* the Dashboard object after its constructor, the page before any data, and
\* no file in the data loader
NewDashboard(keeps) ==
    [data |-> 0,
     boxes |-> [nm \in SensorNames |-> [present |-> FALSE, checked |-> FALSE, disabled |-> FALSE]],
     selectedSensorsByType |-> <<>>,
     currentGraphType |-> "timeseries",
     graphTypeSelect |-> [options |-> <<"timeseries">>, value |-> "timeseries"],
     selectionEventBound |-> FALSE,
     handlers |-> <<>>,
     plotlyKeepsListeners |-> keeps,
     graph |-> NoGraph,
     loading |-> FALSE,
     lastRender |-> [path |-> "", plotted |-> "none", overlay |-> FALSE],
     selectedRangeData |-> NoValues,
     currentSensor |-> "",
     lastSignalProcessingResult |-> NoResult,
     lastProcessingType |-> "null",
     lastProcessingSensor |-> "null",
     warning |-> "",
     exported |-> NoExport]

\* the model stops a loop that does not end by itself after this many rows
MaxRows == 2 * MaxLen + 2

(* ------------------------------ actions -------------------------------- *)
Init ==
    /\ fftLoaded \in BOOLEAN
    /\ pc = "idle"
    /\ call = NoCall
    /\ start = 0
    /\ result = <<>>
    /\ times = <<>>
    /\ ret = Null
    /\ ifft = "none"
    /\ arrays = NoArrays
    /\ earlier = NoEarlier
    /\ dashboard \in {NewDashboard(keeps) : keeps \in BOOLEAN}

DoFFT(sig, rate) ==
    /\ pc = "idle"
    /\ call' = [op |-> "fft", signal |-> sig, sampleRate |-> rate]
    /\ ret' = performFFT(sig, rate)
    /\ arrays' = CallerArrays(FFTArrays(Store0([signal |-> sig.data, scales |-> <<>>]),
                                        "signal", rate.given))
    /\ ifft' = "none"
    /\ pc' = "done"
    /\ UNCHANGED <<dashboard, earlier, fftLoaded, start, result, times>>

CallFFT ==
    /\ pc = "idle"
    /\ \E sig \in SignalArgs, rate \in SampleRates :
        DoFFT(sig, rate)

DoHilbert(sig, rate) ==
    /\ pc = "idle"
    /\ call' = [op |-> "hilbert", signal |-> sig, sampleRate |-> rate]
    /\ ret' = performHilbert(sig, rate)
    /\ ifft' = hilbertInverse(sig, rate)
    /\ arrays' = CallerArrays(HilbertArrays(Store0([signal |-> sig.data, scales |-> <<>>]),
                                            sig.present, rate.given))
    /\ pc' = "done"
    /\ UNCHANGED <<dashboard, earlier, fftLoaded, start, result, times>>

CallHilbert ==
    /\ pc = "idle"
    /\ \E sig \in SignalArgs, rate \in SampleRates :
        DoHilbert(sig, rate)

\* the arguments performSTFT is called with: every small combination, the
\* 256 samples at 100 Hz with windowSize 64 and hopSize 32, and 600 samples
\* with a window longer than fftLengthUsed
STFTArgs ==
    [signal : RampArgs, sampleRate : SampleRates, windowSize : 0..MaxWin, hopSize : 0..MaxHop]
    \cup {[signal |-> Ramp(256), sampleRate |-> [given |-> TRUE, hz |-> 100],
           windowSize |-> 64, hopSize |-> 32],
          [signal |-> Ramp(600), sampleRate |-> [given |-> TRUE, hz |-> 100],
           windowSize |-> 520, hopSize |-> 40]}

\* performSTFT with the rows and time stamps kept in arrays that outlive the
\* call instead of "const result = []" and "const times = []"
DoSTFT_KeepRows(a) ==
    /\ pc = "idle"
    /\ call' = [op |-> "stft", signal |-> a.signal, sampleRate |-> a.sampleRate,
                windowSize |-> a.windowSize, hopSize |-> a.hopSize]
    /\ IF STFTRejects(a.signal, a.windowSize, a.hopSize, a.sampleRate)
       THEN pc' = "done" /\ ret' = Null
       ELSE pc' = "stft" /\ ret' = ret
    /\ arrays' = [signal |-> a.signal.data, scales |-> <<>>]
    /\ start' = 0
    /\ ifft' = "none"
    /\ UNCHANGED <<dashboard, earlier, fftLoaded, result, times>>

\* performSTFT up to the loop: the guards, then start = 0
DoSTFT(a) ==
    /\ pc = "idle"
    /\ call' = [op |-> "stft", signal |-> a.signal, sampleRate |-> a.sampleRate,
                windowSize |-> a.windowSize, hopSize |-> a.hopSize]
    /\ IF STFTRejects(a.signal, a.windowSize, a.hopSize, a.sampleRate)
       THEN pc' = "done" /\ ret' = Null
       ELSE pc' = "stft" /\ ret' = ret
    /\ arrays' = [signal |-> a.signal.data, scales |-> <<>>]
    /\ start' = 0
    /\ result' = <<>>
    /\ times' = <<>>
    /\ ifft' = "none"
    /\ UNCHANGED <<dashboard, earlier, fftLoaded>>

CallSTFT ==
    /\ pc = "idle"
    /\ \E a \in STFTArgs :
        DoSTFT(a)

\* one pass of the frame loop: the frame is pushed when its FFT succeeded
STFTFrame ==
    /\ pc = "stft"
    /\ STFTLoopCond
    /\ Len(result) < MaxRows
    /\ IF FFTFails(TRUE, WindowedLength(call.windowSize), TRUE)
       THEN UNCHANGED <<result, times>>
       ELSE /\ result' = Append(result, STFTRow(call.windowSize))
            /\ times' = Append(times, STFTTime(start))
    /\ start' = STFTAdvance(start, call.hopSize)
    /\ arrays' = CallerArrays(STFTFrameArrays(Store0(arrays), start, call.windowSize,
                                              call.sampleRate.given))
    /\ UNCHANGED <<dashboard, earlier, fftLoaded, pc, call, ret, ifft>>

\* the loop condition fails: build and return the record
STFTReturn ==
    /\ pc = "stft"
    /\ ~STFTLoopCond
    /\ ret' = STFTResult
    /\ pc' = "done"
    /\ UNCHANGED <<dashboard, earlier, fftLoaded, call, start, result, times, ifft, arrays>>

DoWavelet(a) ==
    /\ pc = "idle"
    /\ call' = [op |-> "wavelet", signal |-> a.signal, scales |-> a.scales,
                sampleRate |-> a.sampleRate, options |-> a.options]
    /\ ret' = performWavelet(a.signal, a.scales, a.sampleRate, a.options)
    /\ arrays' = CallerArrays(WaveletArrays(
                      Store0([signal |-> a.signal.data, scales |-> a.scales.list]),
                      a.signal.present, a.scales.given, a.sampleRate, a.options))
    /\ ifft' = "none"
    /\ pc' = "done"
    /\ UNCHANGED <<dashboard, earlier, fftLoaded, start, result, times>>

CallWavelet ==
    /\ pc = "idle"
    /\ \E a \in WaveletArgs :
        DoWavelet(a)

\* performWelch up to the segment loop
DoWelch(sig, rate, nperseg) ==
    /\ pc = "idle"
    /\ call' = [op |-> "welch", signal |-> sig, sampleRate |-> rate, nperseg |-> nperseg]
    /\ IF WelchRejects(sig, nperseg, rate)
       THEN pc' = "done" /\ ret' = Null
       ELSE pc' = "welch" /\ ret' = ret
    /\ arrays' = [signal |-> sig.data, scales |-> <<>>]
    /\ start' = 0
    /\ result' = <<>>
    /\ times' = <<>>
    /\ ifft' = "none"
    /\ UNCHANGED <<dashboard, earlier, fftLoaded>>

CallWelch ==
    /\ pc = "idle"
    /\ \E sig \in RampArgs, rate \in SampleRates, nperseg \in 0..MaxSeg :
        DoWelch(sig, rate, nperseg)

\* one pass of the segment loop
WelchSegment ==
    /\ pc = "welch"
    /\ WelchLoopCond
    /\ Len(result) < MaxRows
    /\ result' = Append(result, WelchSegmentLength(start, call.nperseg))
    /\ start' = WelchAdvance(start, call.nperseg)
    /\ arrays' = CallerArrays(WelchSegmentArrays(Store0(arrays), start, call.nperseg))
    /\ UNCHANGED <<dashboard, earlier, fftLoaded, pc, call, times, ret, ifft>>

\* after the segment loop: the FFT of every segment, the average, the record
WelchReturn ==
    /\ pc = "welch"
    /\ ~WelchLoopCond
    /\ ret' = WelchResult
    /\ pc' = "done"
    /\ arrays' = CallerArrays(WelchFFTArrays(Store0(arrays), Len(result), call.nperseg,
                                             call.sampleRate.given))
    /\ UNCHANGED <<dashboard, earlier, fftLoaded, call, start, result, times, ifft>>

\* What the inverse transform hands back is not fixed by the integers above: in
\* f64 the sums of the transforms round a sample of magnitude 1 away next to one
\* of magnitude 2^53 (for [1, 2^53] the code computes analyticSignal[0] = [0.5, 0],
\* envelope[0] = 0.5, crossCount = 1), and the other revision of performHilbert
\* reads fft.real and fft.imag back after the transform library's fft.inverse().
\* An entry is [re, im] / den.
InverseOutputs == [re : {0, 1}, im : {0}, den : {1, 2}]

\* performHilbert from the slice of the inverse's output on, for a signal that got
\* through the forward transform and the mask, over the outputs of InverseOutputs
HilbertTail ==
    /\ pc = "idle"
    /\ fftLoaded
    /\ \E signal \in {sg \in Signals : Len(sg) >= 2} :
         \E full \in [1..NextPow2(Len(signal)) -> InverseOutputs] :
            /\ call' = [op |-> "hilbertTail", signal |-> [present |-> TRUE, data |-> signal],
                        analyticSignalFull |-> full]
            /\ ret' = hilbertResult(signal, full)
            /\ arrays' = [signal |-> signal, scales |-> <<>>]
    /\ ifft' \in {"_simpleIFFT", "FFT.inverse"}
    /\ pc' = "done"
    /\ UNCHANGED <<dashboard, earlier, fftLoaded, start, result, times>>

DoRemoveDC(sig) ==
    /\ pc = "idle"
    /\ call' = [op |-> "removeDC", signal |-> sig]
    /\ ret' = removeDC(sig)
    /\ arrays' = CallerArrays(RemoveDCArrays(Store0([signal |-> sig.data, scales |-> <<>>]), sig))
    /\ ifft' = "none"
    /\ pc' = "done"
    /\ UNCHANGED <<dashboard, earlier, fftLoaded, start, result, times>>

CallRemoveDC ==
    /\ pc = "idle"
    /\ \E sig \in SignalArgs :
        DoRemoveDC(sig)

DoDetrend(sig) ==
    /\ pc = "idle"
    /\ call' = [op |-> "detrend", signal |-> sig]
    /\ ret' = detrend(sig)
    /\ arrays' = CallerArrays(DetrendArrays(Store0([signal |-> sig.data, scales |-> <<>>]), sig))
    /\ ifft' = "none"
    /\ pc' = "done"
    /\ UNCHANGED <<dashboard, earlier, fftLoaded, start, result, times>>

CallDetrend ==
    /\ pc = "idle"
    /\ \E sig \in SignalArgs :
        DoDetrend(sig)

DoAutoWindow(signalLength, hz, options) ==
    /\ pc = "idle"
    /\ call' = [op |-> "autoWindow", signalLength |-> signalLength,
                sampleRate |-> [given |-> TRUE, hz |-> hz], options |-> options]
    /\ ret' = _autoCalculateWindowSize(signalLength, hz, options)
    /\ arrays' = NoArrays
    /\ ifft' = "none"
    /\ pc' = "done"
    /\ UNCHANGED <<dashboard, earlier, fftLoaded, start, result, times>>

CallAutoWindow ==
    /\ pc = "idle"
    /\ \E signalLength \in AutoLengths, hz \in AutoRates, options \in AutoOptions :
        DoAutoWindow(signalLength, hz, options)

(* --------------------------- calls in sequence ------------------------- *)
\* The caller goes on to its next call.  It may remember the call that has just
\* returned, to compare a later call with; the locals of the finished call are
\* left as they are, nothing of the engine clears them.
Again ==
    /\ pc = "done"
    /\ pc' = "idle"
    /\ earlier' \in {[call |-> call, ret |-> ret, between |-> "none"]}
                    \cup (IF earlier.call = NoCall THEN {earlier}
                          ELSE {[earlier EXCEPT !.between = call.op]})
    /\ UNCHANGED <<dashboard, fftLoaded, call, start, result, times, ret, ifft, arrays>>

\* the arguments of the calls made in sequence
ProbeSignals == {Ramp(2), Ramp(MaxLen)}
ProbeRates == {[given |-> TRUE, hz |-> 1], [given |-> TRUE, hz |-> MaxRate]}
ProbeSTFTArgs ==
    [signal : ProbeSignals, sampleRate : ProbeRates, windowSize : {1, 2}, hopSize : {1}]
ProbeWaveletArgs ==
    [signal : ProbeSignals,
     scales : {[given |-> FALSE, list |-> <<>>], [given |-> TRUE, list |-> <<1, 2>>]},
     sampleRate : {[given |-> TRUE, hz |-> 1]},
     options : {[omega0 |-> 0, sigma |-> 0, edgeMode |-> "", filterNyquist |-> TRUE],
                [omega0 |-> 0, sigma |-> 0, edgeMode |-> "symmetric", filterNyquist |-> FALSE]}]

ProbeFFT == pc = "idle" /\ \E sig \in ProbeSignals, rate \in ProbeRates : DoFFT(sig, rate)
ProbeHilbert == pc = "idle" /\ \E sig \in ProbeSignals, rate \in ProbeRates : DoHilbert(sig, rate)
ProbeSTFT == pc = "idle" /\ \E a \in ProbeSTFTArgs : DoSTFT(a)
ProbeWavelet == pc = "idle" /\ \E a \in ProbeWaveletArgs : DoWavelet(a)
ProbeWelch == pc = "idle" /\ \E sig \in ProbeSignals, rate \in ProbeRates : DoWelch(sig, rate, 2)
ProbeRemoveDC == pc = "idle" /\ \E sig \in ProbeSignals : DoRemoveDC(sig)
ProbeDetrend == pc = "idle" /\ \E sig \in ProbeSignals : DoDetrend(sig)

(* -------------------------- dashboard events --------------------------- *)
engine == <<fftLoaded, pc, call, start, result, times, ret, ifft, arrays, earlier>>

\* as an event begins: no file is emitted yet and no warning is shown
Handling(d) == [d EXCEPT !.exported = NoExport, !.warning = ""]

\* the change event of the checkbox of a sensor of the list
CheckboxChange ==
    /\ \E sensorName \in SensorNames :
          /\ dashboard.boxes[sensorName].present
          /\ ~dashboard.boxes[sensorName].disabled
          /\ dashboard' = CheckboxChanged(Handling(dashboard), sensorName)
    /\ Len(dashboard'.handlers) <= MaxHandlers
    /\ UNCHANGED engine

\* the change event of #graphType
GraphTypeChange ==
    /\ \E i \in 1..Len(dashboard.graphTypeSelect.options) :
          LET value == dashboard.graphTypeSelect.options[i]
          IN  /\ value # dashboard.graphTypeSelect.value
              /\ dashboard' = renderGraph(
                    [Handling(dashboard) EXCEPT !.graphTypeSelect.value = value,
                                                !.currentGraphType = value,
                                                !.selectionEventBound = FALSE])
    /\ Len(dashboard'.handlers) <= MaxHandlers
    /\ UNCHANGED engine

\* #refreshBtn
Refresh ==
    /\ dashboard' = renderGraph(Handling(dashboard))
    /\ Len(dashboard'.handlers) <= MaxHandlers
    /\ UNCHANGED engine

\* a file read by dataLoader.loadFromFile or loadSampleDataFromFile, then _updateUI
OpenFile ==
    /\ \E file \in DataFiles :
          dashboard' = _updateUI([Handling(dashboard) EXCEPT !.data = file])
    /\ Len(dashboard'.handlers) <= MaxHandlers
    /\ UNCHANGED engine

\* loadData: the overlay is shown, the file is fetched, _updateUI, the overlay
\* is hidden
LoadData ==
    /\ \E file \in DataFiles :
          dashboard' = _showLoading(
                          _updateUI([_showLoading(Handling(dashboard), TRUE)
                                        EXCEPT !.data = file]),
                          FALSE)
    /\ Len(dashboard'.handlers) <= MaxHandlers
    /\ UNCHANGED engine

\* the user drags a region of at least two samples over the graph
SelectRegion ==
    /\ dashboard.graph.kind # "none"
    /\ Len(dashboard.handlers) > 0
    /\ dashboard' = Selected(Handling(dashboard))
    /\ UNCHANGED engine

\* #applySignalProcessingBtn, in the panel a selection opens
ApplySignalProcessing ==
    /\ dashboard.selectedRangeData # NoValues
    /\ \E processingType \in ProcessingTypes :
          dashboard' = _applySignalProcessing(Handling(dashboard), processingType)
    /\ UNCHANGED engine

\* #cancelSignalProcessingBtn: _hideSignalProcessingUI
CancelSignalProcessing ==
    /\ dashboard.selectedRangeData # NoValues
    /\ dashboard' = [Handling(dashboard) EXCEPT !.selectedRangeData = NoValues]
    /\ UNCHANGED engine

\* an export button of either export panel
Export ==
    /\ dashboard' = [Handling(dashboard) EXCEPT !.exported = Exported(dashboard)]
    /\ UNCHANGED engine

\* the events that select sensors, choose a graph and load data
NextDashboard ==
    \/ CheckboxChange
    \/ GraphTypeChange
    \/ Refresh
    \/ OpenFile
    \/ LoadData

\* those of them that lead to a graph of another selection, and the events of a
\* region and of the exports
NextSelection ==
    \/ CheckboxChange
    \/ GraphTypeChange
    \/ OpenFile
    \/ SelectRegion
    \/ ApplySignalProcessing
    \/ CancelSignalProcessing
    \/ Export

NextCalls ==
    \/ ProbeFFT
    \/ ProbeHilbert
    \/ ProbeSTFT
    \/ STFTFrame
    \/ STFTReturn
    \/ ProbeWavelet
    \/ ProbeWelch
    \/ WelchSegment
    \/ WelchReturn
    \/ ProbeRemoveDC
    \/ ProbeDetrend
    \/ Again

Next ==
    \/ CallFFT
    \/ CallHilbert
    \/ CallSTFT
    \/ STFTFrame
    \/ STFTReturn
    \/ CallWavelet
    \/ CallWelch
    \/ WelchSegment
    \/ WelchReturn
    \/ CallRemoveDC
    \/ CallDetrend
    \/ CallAutoWindow

(* ------------------------------ properties ----------------------------- *)
Done(op) == pc = "done" /\ call.op = op
SignalLength == Len(call.signal.data)
IsPow2(n) == n >= 1 /\ Pow2AtLeast(1, n) = n
StrictlyAscending(seq) == \A i \in 1..(Len(seq) - 1) : seq[i] < seq[i + 1]

\* C1: performFFT, performSTFT, performHilbert and performWavelet return null, never
\* a record, when the signal is absent or empty or the sample rate is not supplied.
C1_MissingInputFails ==
    \A op \in {"fft", "stft", "hilbert", "wavelet"} :
        (/\ call.op = op
         /\ \/ ~call.signal.present
            \/ SignalLength = 0
            \/ ~call.sampleRate.given)
        => pc = "done" /\ ret = Null

C1_Witness ==
    /\ Done("wavelet")
    /\ call.signal.present
    /\ SignalLength = MaxLen
    /\ ~call.sampleRate.given
    /\ ret = Null

C3_WindowLargerThanSignalFails ==
    (Done("stft") /\ fftLoaded) =>
        /\ (call.windowSize > SignalLength => ret = Null)
        /\ (ret.kind = "stft" => ~(ret.spectrogram = <<>> /\ ret.times = <<>>))

\* C4: a sample rate that is zero or negative makes performFFT, performSTFT,
\* performHilbert and performWavelet return null before anything is computed.
C4_NonPositiveRateFails ==
    \A op \in {"fft", "stft", "hilbert", "wavelet"} :
        (call.op = op /\ call.sampleRate.given /\ call.sampleRate.hz <= 0)
        => pc = "done" /\ ret = Null

\* C5: the frame loop of performSTFT and the segment loop of performWelch advance
\* their index strictly on every pass (so every call terminates), also for
\* hopSize = 0 and nperseg = 0.
C5_LoopIndexAdvances ==
    [][/\ (pc = "stft" /\ pc' = "stft") => start' > start
       /\ (pc = "welch" /\ pc' = "welch") => start' > start]_vars

\* C6: in every performSTFT result the spectrogram has one row per entry of times,
\* frameCount is that number, and every row has frequencies.length entries.
C6_SpectrogramCoIndexed ==
    (Done("stft") /\ ret.kind = "stft") =>
        /\ Len(ret.spectrogram) = Len(ret.times)
        /\ ret.frameCount = Len(ret.times)
        /\ \A k \in 1..Len(ret.spectrogram) : ret.spectrogram[k].len = Len(ret.frequencies)

\* C7: for every signal of length >= 1 given with a sample rate, performHilbert
\* returns a record whose envelope and analyticSignal have signal.length entries
\* (stated with the FFT library loaded).
C7_HilbertSameLength ==
    (/\ Done("hilbert")
     /\ fftLoaded
     /\ call.signal.present
     /\ SignalLength >= 1
     /\ call.sampleRate.given)
    => /\ ret.kind = "hilbert"
       /\ Len(ret.envelope) = SignalLength
       /\ Len(ret.analyticSignal) = SignalLength

\* C8: for every signal of length >= 1 given with a sample rate, performFFT reports
\* as fftLength the smallest power of two >= signal.length, and magnitude, phase,
\* real and imaginary each have fftLength / 2 entries, the reported frequencyBins
\* (stated with the FFT library loaded).
C8_HalfSpectrumLengths ==
    (/\ Done("fft")
     /\ fftLoaded
     /\ call.signal.present
     /\ SignalLength >= 1
     /\ call.sampleRate.given)
    => /\ ret.kind = "fft"
       /\ IsPow2(ret.fftLength)
       /\ ret.fftLength >= SignalLength
       /\ (ret.fftLength > 1 => ret.fftLength \div 2 < SignalLength)
       /\ \A len \in {Len(ret.magnitude), Len(ret.phase), Len(ret.real), Len(ret.imaginary)} :
            /\ 2 * len = ret.fftLength
            /\ len = ret.frequencyBins

\* the number of full frames, and the numerators of their time stamps
FullFrames(len, windowSize, hopSize) == ((len - windowSize) \div hopSize) + 1
FrameTimes(count, hopSize) == [i \in 1..count |-> (i - 1) * hopSize]

C10_ScalesAscending ==
    (/\ Done("wavelet")
     /\ call.options.filterNyquist
     /\ call.sampleRate.hz > 0
     /\ ret.kind = "wavelet")
    => /\ Len(ret.scales) > 0
       /\ StrictlyAscending(ret.scales)

\* the scales a performWavelet call starts from, and the frequency a scale maps to
InputScales == IF call.scales.given THEN call.scales.list ELSE defaultScales
\* (omega0 / 2 pi) * sampleRate / scale <= sampleRate / 2 for a scale > 0, that is
\* omega0 * sampleRate <= pi * scale * sampleRate, decided with 333/106 < pi < 355/113
\* (the two bounds of pi agree on every scale and omega0 of the model)
AtMostNyquist(f) ==
    /\ 106 * f.omega0 * f.hz <= 333 * f.scale * f.hz
    /\ 113 * f.omega0 * f.hz <= 355 * f.scale * f.hz
NyquistKept ==
    LET Below(s) == AtMostNyquist([omega0 |-> OptOmega0(call.options),
                                   hz |-> call.sampleRate.hz, scale |-> s])
    IN  SelectSeq(InputScales, Below)

\* C11: with filterNyquist on, performWavelet keeps exactly the scales whose
\* frequency (omega0 / 2 pi) * sampleRate / scale is at most sampleRate / 2, in
\* their order, so that every returned frequency is at most sampleRate / 2; it
\* fails when no scale is kept.
C11_NyquistFilterExact ==
    (/\ Done("wavelet")
     /\ call.options.filterNyquist
     /\ call.signal.present
     /\ SignalLength >= 1
     /\ call.sampleRate.given)
    => IF NyquistKept = <<>> THEN ret = Null
       ELSE /\ ret.kind = "wavelet"
            /\ ret.scales = NyquistKept
            /\ \A j \in 1..Len(ret.frequencies) : AtMostNyquist(ret.frequencies[j])

\* the default scales at 100 Hz with omega0 5: scale 1 (79.6 Hz) is dropped, scale 2
\* (39.8 Hz) and all above it are kept
C11_Witness ==
    /\ Done("wavelet")
    /\ ~call.scales.given
    /\ call.options.filterNyquist
    /\ call.sampleRate.hz = 100
    /\ OptOmega0(call.options) = 5
    /\ ret.kind = "wavelet"
    /\ Len(ret.scales) = Len(defaultScales) - 1
    /\ ret.scales[1] = 2

\* C12: every performWavelet result is co-indexed: coefficients has one row per
\* scale, frequencies has one entry per scale, frequencies[i] being
\* (omega0 / 2 pi) * sampleRate / scales[i], and every row has signal.length
\* entries, in every edgeMode.
C12_WaveletCoIndexed ==
    (Done("wavelet") /\ ret.kind = "wavelet") =>
        /\ Len(ret.coefficients) = Len(ret.scales)
        /\ Len(ret.frequencies) = Len(ret.scales)
        /\ \A j \in 1..Len(ret.scales) :
              /\ ret.frequencies[j] = [omega0 |-> OptOmega0(call.options),
                                       hz |-> call.sampleRate.hz,
                                       scale |-> ret.scales[j]]
              /\ Len(ret.coefficients[j]) = SignalLength

\* two scales over a padded signal of MaxLen samples
C12_Witness ==
    /\ Done("wavelet")
    /\ ret.kind = "wavelet"
    /\ ret.edgeMode = "symmetric"
    /\ SignalLength = MaxLen
    /\ Len(ret.scales) = 2
    /\ Len(ret.coefficients) = 2
    /\ Len(ret.coefficients[2]) = MaxLen

C15_InverseNeverSimpleIFFT ==
    Done("hilbert") => ifft # "_simpleIFFT"

\* C14: a sample with envelope[i] < |signal[i]| - 1e-6 is never hidden: when
\* performHilbert counts at least one, the call fails or the record it returns
\* carries the count.
C14_ViolationReported ==
    (/\ pc = "done"
     /\ call.op \in {"hilbert", "hilbertTail"}
     /\ ret.kind = "hilbert"
     /\ crossCount(call.signal.data, ret.envelope) > 0)
    => /\ "crossCount" \in DOMAIN ret
       /\ ret.crossCount = crossCount(call.signal.data, ret.envelope)

\* C18: for a signal of length 1 detrend returns the input unchanged, one entry
\* equal to the input sample, and no value that comes from a division by zero.
C18_DetrendLengthOne ==
    (Done("detrend") /\ call.signal.present /\ SignalLength = 1)
    => /\ ret.kind = "array"
       /\ Len(ret.data) = 1
       /\ ret.data[1].den # 0
       /\ ret.data[1].num = ret.data[1].den * call.signal.data[1]

\* 1.2^k bracketed in millionths: lo is rounded down and hi is rounded up at every
\* multiplication, so lo <= 1.2^k * 10^6 <= hi. PowersDecided says the bracket
\* settles, for every k, whether 1.2^k <= 64 and what its floor is; PowerFloors
\* is then the set of floor(1.2^k) over the k >= 0 with 1.2^k <= 64.
RECURSIVE PowersDecided(_, _)
PowersDecided(lo, hi) ==
    IF lo > 64 * 1000000 THEN TRUE
    ELSE /\ hi <= 64 * 1000000
         /\ lo \div 1000000 = hi \div 1000000
         /\ PowersDecided((lo * 12) \div 10, (hi * 12 + 9) \div 10)

RECURSIVE PowerFloors(_, _)
PowerFloors(lo, hi) ==
    IF hi > 64 * 1000000 THEN {}
    ELSE {lo \div 1000000} \cup PowerFloors((lo * 12) \div 10, (hi * 12 + 9) \div 10)

DefaultScalesUsed ==
    /\ Done("wavelet")
    /\ ~call.scales.given
    /\ ~call.options.filterNyquist
    /\ ret.kind = "wavelet"

\* C20: when no scales are given, the scale list performWavelet uses is the
\* strictly ascending, duplicate-free list of floor(1.2^k) over the k >= 0 with
\* 1.2^k <= 64; it starts at 1 and every element lies in 1..64.
C20_DefaultScales ==
    DefaultScalesUsed =>
        /\ PowersDecided(1000000, 1000000)
        /\ {ret.scales[i] : i \in 1..Len(ret.scales)} = PowerFloors(1000000, 1000000)
        /\ \A i \in 1..(Len(ret.scales) - 1) : ret.scales[i] < ret.scales[i + 1]
        /\ ret.scales[1] = 1
        /\ \A i \in 1..Len(ret.scales) : ret.scales[i] \in 1..64

C20_Witness ==
    /\ DefaultScalesUsed
    /\ Len(ret.scales) = 18
    /\ ret.scales[Len(ret.scales)] = 55
    /\ Len(ret.coefficients) = 18

EngineOps == {"fft", "stft", "hilbert", "wavelet", "welch", "removeDC", "detrend"}

\* C16: no engine operation mutates its inputs: during and after a call of
\* performFFT, performSTFT, performHilbert, performWavelet, performWelch, removeDC
\* or detrend, the caller's signal array, and the caller's scales array given to
\* performWavelet, have the length and the elements they had before the call.
C16_InputsNotMutated ==
    call.op \in EngineOps =>
        /\ arrays.signal = call.signal.data
        /\ (call.op = "wavelet" /\ call.scales.given) => arrays.scales = call.scales.list

\* performHilbert padded its copy of a signal of length 3 by push
C16_Witness ==
    /\ Done("hilbert")
    /\ Len(call.signal.data) = 3
    /\ ret.kind = "hilbert"
    /\ arrays.signal = call.signal.data

\* C17: two calls of the same engine operation with equal arguments return equal
\* results, whatever calls were made before or between them: a call that has
\* returned with the arguments of a remembered earlier call has returned what
\* that call returned.
C17_EqualCallsEqualResults ==
    (pc = "done" /\ earlier.call = call) => ret = earlier.ret

\* performSTFT returned rows twice for the same arguments, with a call of
\* another operation in between
C17_Witness ==
    /\ Done("stft")
    /\ earlier.call = call
    /\ earlier.between \notin {"none", "stft"}
    /\ ret.kind = "stft"
    /\ ret.frameCount >= 2

C23_NormalisedByFFTLength ==
    (Done("stft") /\ ret.kind = "stft") =>
        \A f \in 1..Len(ret.spectrogram) :
            LET row == ret.spectrogram[f]
                N == row.fftLength
            IN  \A i \in 0..(row.len - 1) :
                    STFTBinFactor(row, i) =
                        IF i = 0 \/ i = N \div 2 THEN [num |-> 1, den |-> N]
                        ELSE [num |-> 2, den |-> N]

\* C24: for every signalLength >= 1 and every options object the frameCount
\* returned by _autoCalculateWindowSize lies in the band
\* minFrameCount <= frameCount <= maxFrameCount (3 and 20 by default); it is
\* never zero or negative.
C24_FrameCountInBand ==
    Done("autoWindow") =>
        /\ ret.frameCount.den = 1
        /\ ret.frameCount.num >= minFrameCount
        /\ ret.frameCount.num <= maxFrameCount
        /\ ret.frameCount.num > 0

\* C19: for every signalLength >= 1, sampleRate > 0 and options, the windowSize
\* of _autoCalculateWindowSize is a power of two and at least minWindowSize
\* (default 32), and hopSize is floor(windowSize / 2), whatever the method.
C19_WindowPowerOfTwo ==
    Done("autoWindow") =>
        /\ IsPow2(ret.windowSize)
        /\ ret.windowSize >= OptMinWindow(call.options)
        /\ ret.hopSize = ret.windowSize \div 2

Spec == Init /\ [][Next]_vars

\* calls made one after another
SpecCalls == Init /\ [][NextCalls]_vars

\* performHilbert's last part alone, over the outputs of the inverse transform
SpecHilbertTail == Init /\ [][HilbertTail]_vars

\* the events of the dashboard page: sensors, graph types and data
SpecDashboard == Init /\ [][NextDashboard]_vars

\* the events of the dashboard page: regions and exports
SpecSelection == Init /\ [][NextSelection]_vars

(* ------------------------- dashboard properties ------------------------ *)
NoDuplicates(array) == \A i, j \in 1..Len(array) : array[i] = array[j] => i = j
SelectionWellFormed(obj) ==
    /\ Len(obj) <= 2
    /\ NoDuplicates(ObjectKeys(obj))
    /\ \A i \in 1..Len(obj) : Len(obj[i].sensors) > 0 /\ NoDuplicates(obj[i].sensors)

\* C25: after any checkbox events (and loads), selectedSensorsByType holds at
\* most two types, each with a non-empty list without duplicates, and an event
\* that rejects the check of a third type leaves selectedSensorsByType as it was.
C25_AtMostTwoTypes ==
    /\ [](SelectionWellFormed(dashboard.selectedSensorsByType))
    /\ [][dashboard'.warning = "max two types"
            => dashboard'.selectedSensorsByType = dashboard.selectedSensorsByType]_vars
\* a check of a third type was rejected with two types selected
C25_Witness ==
    /\ dashboard.warning = "max two types"
    /\ TypeCount(dashboard) = 2

\* the sensors recorded in selectedSensorsByType, and the boxes that are checked
RecordedSensors(d) ==
    {AllSensors(d.selectedSensorsByType)[i] : i \in 1..Len(AllSensors(d.selectedSensorsByType))}
CheckedBoxes(d) == {nm \in SensorNames : d.boxes[nm].present /\ d.boxes[nm].checked}

\* C26: after checkbox events and data loads and reloads, the sensors recorded
\* in selectedSensorsByType are exactly the sensors whose checkbox is checked in
\* the (rebuilt) list.
C26_SelectionMatchesCheckboxes == RecordedSensors(dashboard) = CheckedBoxes(dashboard)

\* C27: whenever the event just handled rendered a graph, currentGraphType is
\* among the graph types allowed for the selection, and with more than one
\* selected type the graph is the time series of several sensors (no transform).
C27_RenderedTypeAllowed ==
    dashboard.lastRender.plotted # "none"
    => /\ Includes(_getAllowedGraphTypes(dashboard), dashboard.currentGraphType)
       /\ TypeCount(dashboard) > 1 => dashboard.lastRender.plotted = "multi"

\* C28: a renderGraph call that activated the loading overlay has deactivated it
\* when it returns, whatever path it took.
C28_OverlayDeactivated ==
    dashboard.lastRender.path \notin {"", "no selection"} => ~dashboard.lastRender.overlay

\* C29: while the time series of a single sensor is displayed exactly one
\* plotly_selected handler is registered and it holds the displayed signal, and
\* selectionEventBound is true only while that is so.
C29_OneCurrentHandler ==
    /\ dashboard.graph.kind = "timeseries"
          => dashboard.handlers = <<dashboard.graph.values>>
    /\ dashboard.selectionEventBound
          => /\ dashboard.graph.kind = "timeseries"
             /\ dashboard.handlers = <<dashboard.graph.values>>

\* C30: an export made while a transform is displayed emits that transform (of
\* the full signal or of the selected region), with its type and its sensor,
\* and not an earlier result and not 'no result'.
C30_ExportsDisplayedTransform ==
    (dashboard.exported # NoExport /\ dashboard.graph.kind \in Transforms)
    => /\ dashboard.exported.emitted
       /\ dashboard.exported.result = dashboard.graph
       /\ dashboard.exported.processingType = dashboard.graph.kind
       /\ dashboard.exported.sensor = dashboard.graph.values.sensor
====
